---- MODULE Spec2Model ----
(***************************************************************************)
(* Response-analysis orchestration of the interview preparation system:    *)
(* src/utils/analyze_candidate.py and src/utils/llm_call.py.               *)
(*                                                                         *)
(* Text (prompts, model output, error messages) is a sequence of symbols.  *)
(* A symbol is one character where some function looks at characters       *)
(* (braces, quotes, digits, fences, whitespace) and one whole word where   *)
(* no function looks inside it ("feedback", "high", a message literal).    *)
(***************************************************************************)
EXTENDS Integers, Sequences, FiniteSets, TLC

\* ------------------------------------------------------------------------
\* Python values.  Every value is a record of the same shape so that any two
\* values can be compared: t is the Python type, n/e a number n * 10^-e,
\* s the text of a str, items the members of a list or (with keys) a dict.
\* ------------------------------------------------------------------------
Val(t, n, e, s, items) == [t |-> t, n |-> n, e |-> e, s |-> s, items |-> items]
None == Val("NoneType", 0, 0, <<>>, <<>>)
IntV(n) == Val("int", n, 0, <<>>, <<>>)
FloatV(m, e) == Val("float", m, e, <<>>, <<>>)
NaNV == Val("float", 0, 0, <<"nan">>, <<>>)
BoolV(b) == Val("bool", IF b THEN 1 ELSE 0, 0, <<>>, <<>>)
StrV(s) == Val("str", 0, 0, s, <<>>)
ListV(items) == Val("list", 0, 0, <<>>, items)
DictV(items) == Val("dict", 0, 0, <<>>, items)
Member(k, v) == [k |-> k, v |-> v]

IsDict(v) == v.t = "dict"
IsStr(v) == v.t = "str"
\* key in d
HasKey(d, k) == \E i \in 1..Len(d.items) : d.items[i].k = k
\* d[key]
Get(d, k) == d.items[CHOOSE i \in 1..Len(d.items) : d.items[i].k = k].v
\* d[key] = v while a dict literal is read: a repeated key keeps its place
\* and takes the last value
DictPut(items, k, v) ==
    IF \E i \in 1..Len(items) : items[i].k = k
    THEN [i \in 1..Len(items) |-> IF items[i].k = k THEN Member(k, v) ELSE items[i]]
    ELSE Append(items, Member(k, v))

\* ------------------------------------------------------------------------
\* str methods
\* ------------------------------------------------------------------------
Whitespace == {" ", "\n"}
Digits == <<"0", "1", "2", "3", "4", "5", "6", "7", "8", "9">>
IsDigit(c) == \E i \in 1..10 : Digits[i] = c
DigitVal(c) == (CHOOSE i \in 1..10 : Digits[i] = c) - 1
\* the double quote character
Quote == "dquote"
\* a markdown code fence, three backticks
Fence == "fence"

RECURSIVE LStrip(_)
LStrip(s) == IF s # <<>> /\ Head(s) \in Whitespace THEN LStrip(Tail(s)) ELSE s
RECURSIVE RStrip(_)
RStrip(s) ==
    IF s # <<>> /\ s[Len(s)] \in Whitespace THEN RStrip(SubSeq(s, 1, Len(s) - 1)) ELSE s
\* str.strip()
strip(s) == RStrip(LStrip(s))

StartsWith(s, p) == Len(p) <= Len(s) /\ SubSeq(s, 1, Len(p)) = p
\* str.replace(old, new)
RECURSIVE replace(_, _, _)
replace(s, old, new) ==
    IF s = <<>> THEN <<>>
    ELSE IF StartsWith(s, old)
         THEN new \o replace(SubSeq(s, Len(old) + 1, Len(s)), old, new)
         ELSE <<Head(s)>> \o replace(Tail(s), old, new)

\* c in s
Contains(s, c) == \E i \in 1..Len(s) : s[i] = c
\* s.index(c), s.rindex(c); the callers establish Contains(s, c) or catch
index(s, c) == CHOOSE i \in 1..Len(s) : s[i] = c /\ \A j \in 1..(i - 1) : s[j] # c
rindex(s, c) == CHOOSE i \in 1..Len(s) : s[i] = c /\ \A j \in (i + 1)..Len(s) : s[j] # c

\* t occurs in s as a contiguous piece (t in s, for strings)
Embeds(s, t) == \E i \in 0..(Len(s) - Len(t)) : SubSeq(s, i + 1, i + Len(t)) = t

RECURSIVE Pow10(_)
Pow10(e) == IF e = 0 THEN 1 ELSE 10 * Pow10(e - 1)

\* ------------------------------------------------------------------------
\* json.loads: strict JSON as the standard library reads it (objects,
\* arrays, strings without escapes, numbers without exponent, the literals,
\* and NaN), whitespace allowed around every token, nothing after the value.
\* ------------------------------------------------------------------------
POk(v, next) == [ok |-> TRUE, val |-> v, next |-> next]
PFail == [ok |-> FALSE, val |-> None, next |-> 0]

RECURSIVE SkipWs(_, _)
SkipWs(s, i) == IF i <= Len(s) /\ s[i] \in Whitespace THEN SkipWs(s, i + 1) ELSE i

\* the first index >= i that holds no digit
RECURSIVE DigitsEnd(_, _)
DigitsEnd(s, i) == IF i <= Len(s) /\ IsDigit(s[i]) THEN DigitsEnd(s, i + 1) ELSE i

\* the number written by the digits s[i..j-1]
RECURSIVE DigitsVal(_, _, _)
DigitsVal(s, i, j) ==
    IF j <= i THEN 0 ELSE 10 * DigitsVal(s, i, j - 1) + DigitVal(s[j - 1])

\* a float m * 10^-e without trailing zeros in the fraction (7.50 = 7.5)
RECURSIVE NormFloat(_, _)
NormFloat(m, e) == IF e > 0 /\ m % 10 = 0 THEN NormFloat(m \div 10, e - 1) ELSE FloatV(m, e)

ParseString(s, i) ==
    IF i > Len(s) \/ s[i] # Quote THEN PFail
    ELSE IF ~\E j \in (i + 1)..Len(s) : s[j] = Quote THEN PFail
    ELSE LET j == CHOOSE j \in (i + 1)..Len(s) :
                      s[j] = Quote /\ \A k \in (i + 1)..(j - 1) : s[k] # Quote
             body == SubSeq(s, i + 1, j - 1)
         IN  IF Contains(body, "\n") THEN PFail ELSE POk(StrV(body), j + 1)

ParseNumber(s, i) ==
    LET neg == i <= Len(s) /\ s[i] = "-"
        a == IF neg THEN i + 1 ELSE i
        b == DigitsEnd(s, a)
        sign == IF neg THEN -1 ELSE 1
    IN  IF b = a THEN PFail
        ELSE IF b - a > 1 /\ s[a] = "0" THEN PFail
        ELSE IF b <= Len(s) /\ s[b] = "."
             THEN LET c == DigitsEnd(s, b + 1)
                  IN  IF c = b + 1 THEN PFail
                      ELSE POk(NormFloat(sign * (DigitsVal(s, a, b) * Pow10(c - b - 1)
                                                 + DigitsVal(s, b + 1, c)),
                                         c - b - 1), c)
             ELSE POk(IntV(sign * DigitsVal(s, a, b)), b)

RECURSIVE ParseValue(_, _)
RECURSIVE ParseMembers(_, _, _)
RECURSIVE ParseElems(_, _, _)
ParseValue(s, i0) ==
    LET i == SkipWs(s, i0)
    IN  IF i > Len(s) THEN PFail
        ELSE IF s[i] = "{"
             THEN LET j == SkipWs(s, i + 1)
                  IN  IF j <= Len(s) /\ s[j] = "}" THEN POk(DictV(<<>>), j + 1)
                      ELSE ParseMembers(s, j, <<>>)
        ELSE IF s[i] = "["
             THEN LET j == SkipWs(s, i + 1)
                  IN  IF j <= Len(s) /\ s[j] = "]" THEN POk(ListV(<<>>), j + 1)
                      ELSE ParseElems(s, j, <<>>)
        ELSE IF s[i] = Quote THEN ParseString(s, i)
        ELSE IF s[i] = "-" \/ IsDigit(s[i]) THEN ParseNumber(s, i)
        ELSE IF s[i] = "null" THEN POk(None, i + 1)
        ELSE IF s[i] = "true" THEN POk(BoolV(TRUE), i + 1)
        ELSE IF s[i] = "false" THEN POk(BoolV(FALSE), i + 1)
        ELSE IF s[i] = "NaN" THEN POk(NaNV, i + 1)
        ELSE PFail
ParseMembers(s, i, acc) ==
    LET k == ParseString(s, SkipWs(s, i))
    IN  IF ~k.ok THEN PFail
        ELSE LET c == SkipWs(s, k.next)
             IN  IF c > Len(s) \/ s[c] # ":" THEN PFail
                 ELSE LET v == ParseValue(s, c + 1)
                      IN  IF ~v.ok THEN PFail
                          ELSE LET d == SkipWs(s, v.next)
                                   acc2 == DictPut(acc, k.val.s, v.val)
                               IN  IF d > Len(s) THEN PFail
                                   ELSE IF s[d] = "}" THEN POk(DictV(acc2), d + 1)
                                   ELSE IF s[d] = "," THEN ParseMembers(s, d + 1, acc2)
                                   ELSE PFail
ParseElems(s, i, acc) ==
    LET v == ParseValue(s, i)
    IN  IF ~v.ok THEN PFail
        ELSE LET d == SkipWs(s, v.next)
                 acc2 == Append(acc, Member(<<>>, v.val))
             IN  IF d > Len(s) THEN PFail
                 ELSE IF s[d] = "]" THEN POk(ListV(acc2), d + 1)
                 ELSE IF s[d] = "," THEN ParseElems(s, d + 1, acc2)
                 ELSE PFail

\* json.loads(s): [ok, val]; ok = FALSE stands for the JSONDecodeError
json_loads(s) ==
    LET v == ParseValue(s, 1)
    IN  IF v.ok /\ SkipWs(s, v.next) > Len(s) THEN v ELSE PFail

\* ------------------------------------------------------------------------
\* Results of calls: a returned value, or a raised exception.  first is the
\* message of the exception that was raised first on the way to exc (the
\* proximate cause), kept through every except/raise that replaces it.
\* ------------------------------------------------------------------------
NoExc == [type |-> "", msg |-> <<>>]
Ret(v) == [ok |-> TRUE, val |-> v, exc |-> NoExc, first |-> <<>>]
RaiseFrom(type, msg, first) ==
    [ok |-> FALSE, val |-> None, exc |-> [type |-> type, msg |-> msg], first |-> first]
Raise(type, msg) == RaiseFrom(type, msg, msg)
AnalysisError == "InterviewAnalysisError"

\* ------------------------------------------------------------------------
\* str(), repr(), float() of Python values
\* ------------------------------------------------------------------------
InfV(sign) == Val("float", sign, 0, <<"inf">>, <<>>)
IsFinite(f) == f.s = <<>>

RECURSIVE NatStr(_)
NatStr(n) == IF n < 10 THEN <<Digits[n + 1]>> ELSE NatStr(n \div 10) \o <<Digits[(n % 10) + 1]>>
IntStr(n) == IF n < 0 THEN <<"-">> \o NatStr(-n) ELSE NatStr(n)
\* n written with exactly w digits
RECURSIVE PadStr(_, _)
PadStr(n, w) == IF w = 0 THEN <<>> ELSE PadStr(n \div 10, w - 1) \o <<Digits[(n % 10) + 1]>>
FloatStr(f) ==
    IF ~IsFinite(f) THEN (IF f.n < 0 THEN <<"-">> ELSE <<>>) \o f.s
    ELSE LET a == IF f.n < 0 THEN -f.n ELSE f.n
             p == Pow10(f.e)
         IN  (IF f.n < 0 THEN <<"-">> ELSE <<>>) \o NatStr(a \div p) \o <<".">>
             \o (IF f.e = 0 THEN <<"0">> ELSE PadStr(a % p, f.e))

RECURSIVE PyRepr(_)
RECURSIVE ReprItems(_, _)
PyRepr(v) ==
    CASE v.t = "str" -> <<"'">> \o v.s \o <<"'">>
      [] v.t = "int" -> IntStr(v.n)
      [] v.t = "float" -> FloatStr(v)
      [] v.t = "bool" -> IF v.n = 1 THEN <<"True">> ELSE <<"False">>
      [] v.t = "NoneType" -> <<"None">>
      [] v.t = "list" -> <<"[">> \o ReprItems(v.items, FALSE) \o <<"]">>
      [] v.t = "dict" -> <<"{">> \o ReprItems(v.items, TRUE) \o <<"}">>
ReprItems(items, keyed) ==
    IF items = <<>> THEN <<>>
    ELSE (IF keyed THEN <<"'">> \o Head(items).k \o <<"'", ":", " ">> ELSE <<>>)
         \o PyRepr(Head(items).v)
         \o (IF Len(items) > 1 THEN <<",", " ">> ELSE <<>>)
         \o ReprItems(Tail(items), keyed)
\* str(v), also what an f-string puts for {v}
PyStr(v) == IF v.t = "str" THEN v.s ELSE PyRepr(v)
\* repr of a list of str, as in f"{missing}"
ReprStrList(keys) == PyRepr(ListV([i \in 1..Len(keys) |-> Member(<<>>, StrV(keys[i]))]))
\* f"{type(data)}"
TypeStr(v) == <<"<class '", v.t, "'>">>

\* float(text): optional sign, digits with an optional fraction, or nan/inf
FloatOfText(s0) ==
    LET s == strip(s0)
        signed == s # <<>> /\ s[1] \in {"-", "+"}
        sign == IF signed /\ s[1] = "-" THEN -1 ELSE 1
        a == IF signed THEN 2 ELSE 1
        b == DigitsEnd(s, a)
        bad == Raise("ValueError", <<"could not convert string to float: ">> \o PyRepr(StrV(s0)))
    IN  IF a > Len(s) THEN bad
        ELSE IF SubSeq(s, a, Len(s)) = <<"nan">> THEN Ret(NaNV)
        ELSE IF SubSeq(s, a, Len(s)) \in {<<"inf">>, <<"infinity">>} THEN Ret(InfV(sign))
        ELSE IF b > Len(s) THEN Ret(FloatV(sign * DigitsVal(s, a, b), 0))
        ELSE IF s[b] = "."
             THEN LET c == DigitsEnd(s, b + 1)
                  IN  IF c <= Len(s) \/ (b = a /\ c = b + 1) THEN bad
                      ELSE Ret(NormFloat(sign * (DigitsVal(s, a, b) * Pow10(c - b - 1)
                                                 + DigitsVal(s, b + 1, c)),
                                         c - b - 1))
        ELSE bad
\* float(v)
float(v) ==
    CASE v.t \in {"int", "bool"} -> Ret(FloatV(v.n, 0))
      [] v.t = "float" -> Ret(v)
      [] v.t = "str" -> FloatOfText(v.s)
      [] OTHER -> Raise("TypeError",
                        <<"float() argument must be a string or a real number, not ">>
                        \o PyRepr(StrV(<<v.t>>)))
\* (mutant) 0 <= score < 10
ScoreInRangeStrict(f) == IsFinite(f) /\ 0 <= f.n /\ f.n < 10 * Pow10(f.e)
\* 0 <= score <= 10 on a float
ScoreInRange(f) == IsFinite(f) /\ 0 <= f.n /\ f.n <= 10 * Pow10(f.e)

\* ------------------------------------------------------------------------
\* llm_call.py
\* ------------------------------------------------------------------------
\* get_response_from_llm, given what model.generate_content / response.text
\* did: returned text, or raised
get_response_from_llm(api) ==
    IF api.ok THEN api
    ELSE RaiseFrom("RuntimeError", <<"Gemini API call failed: ">> \o api.exc.msg, api.first)

\* parse_json_response: val is what it returns; caught is the message of the
\* exception its except clause swallowed (<<>> when none was raised).  The
\* wording of json.loads's error depends on the text; it is one symbol here.
ParseJsonResponseRun(response) ==
    IF ~IsStr(response)
    THEN [val |-> None,
          caught |-> <<"'">> \o <<response.t>> \o <<"' object has no attribute 'replace'">>]
    ELSE LET clean == strip(replace(replace(response.s, <<Fence, "json">>, <<>>),
                                    <<Fence>>, <<>>))
         IN  IF Contains(clean, "{") /\ Contains(clean, "}")
             THEN LET json_str == SubSeq(clean, index(clean, "{"), rindex(clean, "}"))
                      r == json_loads(json_str)
                  IN  IF r.ok THEN [val |-> r.val, caught |-> <<>>]
                      ELSE [val |-> None, caught |-> <<"JSONDecodeError">>]
             ELSE [val |-> None, caught |-> <<>>]
parse_json_response(response) == ParseJsonResponseRun(response).val

\* ------------------------------------------------------------------------
\* analyze_candidate.py
\* ------------------------------------------------------------------------
_safe_json_parse(data) ==
    IF data = None
    THEN Raise(AnalysisError, <<"LLM returned None instead of valid JSON">>)
    ELSE IF IsDict(data) THEN Ret(data)
    ELSE IF IsStr(data)
         THEN LET d == strip(data.s)
                  direct == json_loads(d)
                  cut == IF Contains(d, "{") /\ Contains(d, "}")
                         THEN json_loads(SubSeq(d, index(d, "{"), rindex(d, "}")))
                         ELSE PFail
              IN  IF direct.ok THEN Ret(direct.val)
                  ELSE IF cut.ok THEN Ret(cut.val)
                  ELSE RaiseFrom(AnalysisError, <<"Invalid JSON from LLM: ">> \o d,
                                 <<"JSONDecodeError">>)
    ELSE Raise(AnalysisError, <<"LLM returned unsupported format: ">> \o TypeStr(data))

\* (mutant) the exception is let through as it is
RewrapLeaks(prefix, r) == r
\* except Exception as e: raise InterviewAnalysisError(f"{prefix}{str(e)}")
Rewrap(prefix, r) ==
    IF r.ok THEN r ELSE RaiseFrom(AnalysisError, <<prefix>> \o r.exc.msg, r.first)

\* _make_llm_call_async from the point where the executor future completes
\* with g, the outcome of get_response_from_llm
_make_llm_call_async(g) ==
    Rewrap("Failed to get LLM response: ",
           IF ~g.ok THEN g
           ELSE LET run == ParseJsonResponseRun(g.val)
                    safe == _safe_json_parse(run.val)
                IN  IF safe.ok \/ run.caught = <<>> THEN safe
                    ELSE RaiseFrom(safe.exc.type, safe.exc.msg, run.caught))

\* (mutant) str(response["next_question"]) is returned
NextQuestionCheckStr(response) ==
    IF ~IsDict(response)
    THEN Raise(AnalysisError, <<"LLM returned non-dict: ">> \o PyStr(response))
    ELSE IF ~HasKey(response, <<"next_question">>)
         THEN Raise(AnalysisError,
                    <<"Missing 'next_question' in LLM output: ">> \o PyStr(response))
         ELSE Ret(StrV(PyStr(Get(response, <<"next_question">>))))
\* (mutant) response.get("next_question") in place of the membership test
NextQuestionCheckGet(response) ==
    IF ~IsDict(response)
    THEN Raise(AnalysisError, <<"LLM returned non-dict: ">> \o PyStr(response))
    ELSE Ret(IF HasKey(response, <<"next_question">>)
             THEN Get(response, <<"next_question">>) ELSE None)
\* get_next_question, lines 93-101: the checks on the normalized response
NextQuestionCheck(response) ==
    IF ~IsDict(response)
    THEN Raise(AnalysisError, <<"LLM returned non-dict: ">> \o PyStr(response))
    ELSE IF ~HasKey(response, <<"next_question">>)
         THEN Raise(AnalysisError,
                    <<"Missing 'next_question' in LLM output: ">> \o PyStr(response))
         ELSE Ret(Get(response, <<"next_question">>))
\* get_next_question from the await of line 91 on; call is the outcome of
\* _make_llm_call_async
NextQuestionResume(call) ==
    Rewrap("Question generation failed: ",
           IF ~call.ok THEN call ELSE NextQuestionCheck(call.val))

required_fields == << <<"feedback">>, <<"score">> >>
\* (mutant) only the first missing field is reported
MissingFieldsFirst(response) ==
    SubSeq(SelectSeq(required_fields, LAMBDA f : ~HasKey(response, f)), 1, 1)
\* [f for f in required_fields if f not in response]
MissingFields(response) == SelectSeq(required_fields, LAMBDA f : ~HasKey(response, f))
\* lines 137-142: the inner try around float() and the range test
ScoreCheck(response) ==
    LET raw == Get(response, <<"score">>)
        score == float(raw)
        inner == IF ~score.ok THEN score
                 ELSE IF ~ScoreInRange(score.val)
                      THEN Raise(AnalysisError,
                                 <<"Score out of range: ">> \o PyStr(score.val))
                      ELSE score
    IN  IF inner.ok THEN inner
        ELSE RaiseFrom(AnalysisError, <<"Score must be a number: ">> \o PyStr(raw),
                       inner.first)
\* (mutant) the coerced float is returned as the score
FeedbackResultCoerced(response) ==
    DictV(<< Member(<<"feedback">>, Get(response, <<"feedback">>)),
             Member(<<"score">>, float(Get(response, <<"score">>)).val) >>)
\* lines 144-147: the returned dict
FeedbackResult(response) ==
    DictV(<< Member(<<"feedback">>, Get(response, <<"feedback">>)),
             Member(<<"score">>, Get(response, <<"score">>)) >>)
\* get_feedback_of_candidate_response, lines 128-147
FeedbackCheck(response) ==
    IF ~IsDict(response)
    THEN Raise(AnalysisError, <<"Invalid feedback response: ">> \o PyStr(response))
    ELSE IF MissingFields(response) # <<>>
         THEN Raise(AnalysisError,
                    <<"Missing fields: ">> \o ReprStrList(MissingFields(response)))
         ELSE IF ~ScoreCheck(response).ok THEN ScoreCheck(response)
         ELSE Ret(FeedbackResult(response))
FeedbackResume(call) ==
    Rewrap("Feedback generation failed: ",
           IF ~call.ok THEN call ELSE FeedbackCheck(call.val))

\* str.format of the prompt template raising (a KeyError for a placeholder the
\* call does not supply), caught by the sub-call's except
RenderFailure(role) ==
    Rewrap(IF role = "fb" THEN "Feedback generation failed: "
                          ELSE "Question generation failed: ",
           Raise("KeyError", <<"'", "placeholder", "'">>))

\* the rest of a sub-call once its executor future holds g
SubCallResume(role, g) ==
    IF role = "fb" THEN FeedbackResume(_make_llm_call_async(g))
                   ELSE NextQuestionResume(_make_llm_call_async(g))

\* (mutant) the results in completion order, as asyncio.as_completed gives them
GatherResultsAsCompleted(fb, nq, fbFirst) == IF fbFirst THEN <<fb, nq>> ELSE <<nq, fb>>
\* (mutant) the call is handed to the executor a second time
SubmitTwice(q, t) == Append(Append(q, t), t)
\* loop.run_in_executor(executor, get_response_from_llm, prompt): one work
\* item on the executor's queue
Submit(q, t) == Append(q, t)

\* asyncio.gather(feedback_task, next_question_task): the list of results
GatherResults(fb, nq, fbFirst) == <<fb, nq>>
\* lines 175-180: unpack the gathered list and return the tuple
TupleV(a, b) == Val("tuple", 0, 0, <<>>, << Member(<<>>, a), Member(<<>>, b) >>)
CombinedReturn(results) ==
    LET feedback == results[1]
        next_question == results[2]
    IN  Ret(TupleV(next_question, feedback))
\* (mutant) the except clauses in the other order: except Exception first
OnTimeoutAsException ==
    RaiseFrom(AnalysisError, <<"Response analysis failed: ">>, <<>>)
\* lines 182-183
OnTimeout == RaiseFrom(AnalysisError, <<"LLM operations timed out">>, <<>>)
\* lines 185-186
OnSubCallError(r) == Rewrap("Response analysis failed: ", r)
\* what wait_for raises when its deadline passes: asyncio.TimeoutError()
WaitForTimeout == Raise("TimeoutError", <<>>)
\* asyncio.TimeoutError, which line 182 names
IsTimeoutError(type) == type = "TimeoutError"
\* (mutant) the first except clause catches every exception
CombinedExceptTimeoutFirst(r) == OnTimeout
\* lines 182-186: the except clauses, tried in order, for the exception r
\* that the await of lines 175-178 raised
CombinedExcept(r) ==
    IF IsTimeoutError(r.exc.type) THEN OnTimeout ELSE OnSubCallError(r)
\* (mutant) the failure is raised only once both awaitables have finished
GatherRaisesWhenAllDone(otherFinished) == otherFinished
\* gather with return_exceptions=False hands the first exception to the
\* awaiter at once, whatever the other awaitable is doing
GatherRaisesNow(otherFinished) == TRUE

\* ------------------------------------------------------------------------
\* What the gateway (Gemini) can answer
\* ------------------------------------------------------------------------
JStr(w) == <<Quote, w, Quote>>
Pair(k, v) == JStr(k) \o <<":", " ">> \o v
Obj1(p) == <<"{">> \o p \o <<"}">>
Obj2(p, q) == <<"{">> \o p \o <<",", " ">> \o q \o <<"}">>
\* the scores the model may give: the integers from -1 to MaxScore, and some
\* that are not integers
MaxScore == 11
ScoreTexts ==
    { IntStr(n) : n \in (-1)..MaxScore }
    \cup { JStr("7"), JStr("high"), <<"7", ".", "5">>, <<"1", "0", ".", "5">>,
           <<"null">>, <<"true">>, <<"NaN">> }
FeedbackText(score) == Obj2(Pair("feedback", JStr("clear answer")), Pair("score", score))
QuestionText == Obj1(Pair("next_question", JStr("Why queues?")))
Fenced(t) == <<"Here you go:", "\n", Fence, "json", "\n">> \o t \o <<"\n", Fence, "\n">>
ModelTexts ==
    { FeedbackText(sc) : sc \in ScoreTexts }
    \cup { QuestionText, Fenced(QuestionText), Fenced(FeedbackText(<<"7">>)),
           Obj1(Pair("question", JStr("Why queues?"))),
           Obj1(Pair("next_question", <<"null">>)),
           <<"{", "}">>, Obj1(Pair("feedback", JStr("clear answer"))),
           Obj1(Pair("score", <<"7">>)),
           <<"I cannot answer that.">>, <<"{", "not json", "}">> }
\* the gateway's own transport gives up waiting: a TimeoutError
GatewayTimeout == Raise("TimeoutError", <<"The read operation timed out">>)
\* model.generate_content(...) / response.text: text, or an exception
ApiOutcomes ==
    { Ret(StrV(t)) : t \in ModelTexts }
    \cup { Raise("ResourceExhausted", <<"429 quota exceeded">>),
           Raise("DeadlineExceeded", <<"504 deadline exceeded">>),
           GatewayTimeout }

\* ------------------------------------------------------------------------
\* State
\* ------------------------------------------------------------------------
max_workers == 4

Roles == {"fb", "nq"}
Sibling(t) == <<t[1], IF t[2] = "fb" THEN "nq" ELSE "fb">>

VARIABLES
    op,       \* op[o]: the caller's operation o: kind, st, expired, out
    task,     \* task[t]: the coroutine of sub-call t: st, rank, res
    fut,      \* fut[t]: the executor future of t's gateway call: st, res
    queue,    \* the executor's work queue
    workers,  \* the calls the executor's threads are running
    submitted, \* submitted[t]: how many gateway calls t has handed to the executor
    norm      \* a run of the normalizer on its own: stage, input, out
vars == <<op, task, fut, queue, workers, submitted, norm>>

Ops == DOMAIN op
Tasks == Ops \X Roles

IdleOp == [kind |-> "none", st |-> "idle", expired |-> FALSE, out |-> Ret(None)]
NoTask == [st |-> "none", rank |-> 0, res |-> Ret(None)]
NoFut == [st |-> "none", res |-> Ret(None)]

\* no run of the normalizer on its own
NoNorm == [stage |-> "none", input |-> None, wrapped |-> FALSE, object |-> None,
           out |-> Ret(None), prev |-> Ret(None)]

\* callers: the operations that callers will await
InitOf(callers) ==
    /\ op = [o \in callers |-> IdleOp]
    /\ task = [t \in callers \X Roles |-> NoTask]
    /\ fut = [t \in callers \X Roles |-> NoFut]
    /\ queue = <<>>
    /\ workers = {}
    /\ submitted = [t \in callers \X Roles |-> 0]
    /\ norm = NoNorm
\* one operation, of any of the three kinds
Init == InitOf({1})

RolesOf(kind) ==
    CASE kind = "combined" -> Roles
      [] kind = "question" -> {"nq"}
      [] kind = "feedback" -> {"fb"}
      [] OTHER -> {}
Finished(t) == task[t].st \in {"done", "failed"}

\* A caller awaits one of the three operations
StartOp(o, kind) ==
    /\ op[o].st = "idle"
    /\ op' = [op EXCEPT ![o] = [kind |-> kind, st |-> "waiting", expired |-> FALSE,
                                out |-> Ret(None)]]
    /\ task' = [t \in Tasks |->
                   IF t[1] = o /\ t[2] \in RolesOf(kind)
                   THEN [st |-> "created", rank |-> 0, res |-> Ret(None)]
                   ELSE task[t]]
    /\ UNCHANGED <<fut, queue, workers, submitted, norm>>

\* What the awaiting operation does when its sub-call t has just completed
\* (tk is the task table after the completion)
OpAfter(t, tk) ==
    LET o == t[1]
        cur == op[o]
        me == tk[t]
        fb == tk[<<o, "fb">>]
        nq == tk[<<o, "nq">>]
    IN  IF cur.st # "waiting" THEN cur
        ELSE IF cur.kind # "combined"
             THEN [cur EXCEPT !.st = IF me.res.ok THEN "returned" ELSE "raised",
                              !.out = me.res]
        ELSE IF ~me.res.ok
             THEN IF GatherRaisesNow(tk[Sibling(t)].st \in {"done", "failed"})
                  THEN [cur EXCEPT !.st = "raised", !.out = CombinedExcept(me.res)]
                  ELSE cur
        ELSE IF fb.st = "done" /\ nq.st = "done"
             THEN [cur EXCEPT !.st = "returned",
                              !.out = CombinedReturn(
                                          GatherResults(fb.res.val, nq.res.val,
                                                        fb.rank < nq.rank))]
        ELSE IF tk[Sibling(t)].st = "failed"
             THEN [cur EXCEPT !.st = "raised",
                              !.out = CombinedExcept(tk[Sibling(t)].res)]
        ELSE cur

Complete(t, r) ==
    LET rank == IF Finished(Sibling(t)) THEN 2 ELSE 1
        tk == [task EXCEPT ![t] = [st |-> IF r.ok THEN "done" ELSE "failed",
                                   rank |-> rank, res |-> r]]
    IN  /\ task' = tk
        /\ op' = [op EXCEPT ![t[1]] = OpAfter(t, tk)]

\* The first steps of the operation's sub-calls, which the event loop runs
\* back to back in the order gather was given them (feedback, then
\* next-question): each renders its prompt, hands the gateway call to the
\* executor (loop.run_in_executor) and awaits it.  A sub-call whose prompt
\* does not render fails there; the other one still makes its call.
TasksStart(o, renders) ==
    /\ op[o].st = "waiting"
    /\ \A r \in RolesOf(op[o].kind) : task[<<o, r>>].st = "created"
    /\ LET mine == {<<o, r>> : r \in RolesOf(op[o].kind)}
           started == {t \in mine : renders[t[2]]}
           broken == mine \ started
           tk == [t \in Tasks |->
                     IF t \in started THEN [task[t] EXCEPT !.st = "awaiting"]
                     ELSE IF t \in broken
                          THEN [st |-> "failed",
                                rank |-> IF t[2] = "nq" /\ <<o, "fb">> \in broken
                                         THEN 2 ELSE 1,
                                res |-> RenderFailure(t[2])]
                          ELSE task[t]]
           first == IF <<o, "fb">> \in broken THEN <<o, "fb">> ELSE <<o, "nq">>
       IN  /\ task' = tk
           /\ op' = IF broken = {} THEN op ELSE [op EXCEPT ![o] = OpAfter(first, tk)]
           /\ fut' = [t \in Tasks |->
                         IF t \in started THEN [st |-> "pending", res |-> Ret(None)]
                         ELSE fut[t]]
           /\ LET q1 == IF <<o, "fb">> \in started THEN Submit(queue, <<o, "fb">>)
                                                    ELSE queue
                  q2 == IF <<o, "nq">> \in started THEN Submit(q1, <<o, "nq">>) ELSE q1
              IN  /\ queue' = q2
                  /\ submitted' =
                         [t \in Tasks |->
                             submitted[t]
                             + Len(SelectSeq(q2, LAMBDA x : x = t))
                             - Len(SelectSeq(queue, LAMBDA x : x = t))]
           /\ UNCHANGED <<workers, norm>>

\* (mutant) the executor starts a new thread for every queued call
WorkerTakeUnbounded ==
    /\ queue # <<>>
    /\ workers' = workers \cup {Head(queue)}
    /\ fut' = [fut EXCEPT ![Head(queue)].st = "running"]
    /\ queue' = Tail(queue)
    /\ UNCHANGED <<op, task, submitted, norm>>
\* A free thread of the pool takes the oldest queued call
WorkerTake ==
    /\ queue # <<>>
    /\ Cardinality(workers) < max_workers
    /\ workers' = workers \cup {Head(queue)}
    /\ fut' = [fut EXCEPT ![Head(queue)].st = "running"]
    /\ queue' = Tail(queue)
    /\ UNCHANGED <<op, task, submitted, norm>>

\* get_response_from_llm finishes on its thread
GatewayReturn(t, api) ==
    /\ t \in workers
    /\ workers' = workers \ {t}
    /\ fut' = [fut EXCEPT ![t] = [st |-> "finished", res |-> get_response_from_llm(api)]]
    /\ UNCHANGED <<op, task, queue, submitted, norm>>

\* The event loop resumes the sub-call with the result of its future
TaskResume(t) ==
    /\ task[t].st = "awaiting"
    /\ fut[t].st = "finished"
    /\ Complete(t, SubCallResume(t[2], fut[t].res))
    /\ UNCHANGED <<fut, queue, workers, submitted, norm>>

\* (mutant) wait_for lets the operation go only once no thread is still
\* running one of its gateway calls
TimeoutJoinsThreads(o) ==
    /\ op[o].kind = "combined"
    /\ op[o].st = "waiting"
    /\ \A t \in Tasks : t[1] = o => fut[t].st # "running"
    /\ op' = [op EXCEPT ![o] = [@ EXCEPT !.st = "raised", !.expired = TRUE,
                                         !.out = CombinedExcept(WaitForTimeout)]]
    /\ task' = [t \in Tasks |->
                   IF t[1] = o /\ task[t].st \in {"created", "awaiting"}
                   THEN [task[t] EXCEPT !.st = "cancelled"]
                   ELSE task[t]]
    /\ fut' = [t \in Tasks |->
                  IF t[1] = o /\ fut[t].st = "pending"
                  THEN [fut[t] EXCEPT !.st = "cancelled"]
                  ELSE fut[t]]
    /\ queue' = SelectSeq(queue, LAMBDA t : t[1] # o)
    /\ UNCHANGED <<workers, submitted, norm>>
\* wait_for's deadline passes while the combined operation still waits:
\* gather and both sub-calls are cancelled (a queued gateway call is dropped,
\* a running one cannot be interrupted) and asyncio.TimeoutError is raised
Timeout(o) ==
    /\ op[o].kind = "combined"
    /\ op[o].st = "waiting"
    /\ op' = [op EXCEPT ![o] = [@ EXCEPT !.st = "raised", !.expired = TRUE,
                                         !.out = CombinedExcept(WaitForTimeout)]]
    /\ task' = [t \in Tasks |->
                   IF t[1] = o /\ task[t].st \in {"created", "awaiting"}
                   THEN [task[t] EXCEPT !.st = "cancelled"]
                   ELSE task[t]]
    /\ fut' = [t \in Tasks |->
                  IF t[1] = o /\ fut[t].st = "pending"
                  THEN [fut[t] EXCEPT !.st = "cancelled"]
                  ELSE fut[t]]
    /\ queue' = SelectSeq(queue, LAMBDA t : t[1] # o)
    /\ UNCHANGED <<workers, submitted, norm>>

Next ==
    \/ \E o \in Ops, kind \in {"combined", "question", "feedback"} : StartOp(o, kind)
    \/ \E o \in Ops, renders \in [Roles -> BOOLEAN] : TasksStart(o, renders)
    \/ WorkerTake
    \/ \E t \in Tasks, api \in ApiOutcomes : GatewayReturn(t, api)
    \/ \E t \in Tasks : TaskResume(t)
    \/ \E o \in Ops : Timeout(o)

Spec == Init /\ [][Next]_vars

\* The same program with what its scheduling guarantees: the timeout being
\* finite (line 177), the event loop fires wait_for's timer if the operation
\* is still waiting then.  Nothing is assumed of the pool's threads or of the
\* gateway: a queued call may never get a thread and a running call may
\* never return.
Fairness == WF_vars(\E o \in Ops : Timeout(o))
SpecLive == Init /\ [][Next]_vars /\ Fairness

\* ------------------------------------------------------------------------
\* Several callers at once: PoolOps combined operations share the executor,
\* so that more gateway calls are wanted than the pool has threads.  The
\* gateway is overloaded and refuses every call.
\* ------------------------------------------------------------------------
PoolOps == 3
PoolOutcomes == { Raise("ResourceExhausted", <<"429 quota exceeded">>) }
InitPool == InitOf(1..PoolOps)
NextPool ==
    \/ \E o \in Ops : StartOp(o, "combined")
    \/ \E o \in Ops : TasksStart(o, [r \in Roles |-> TRUE])
    \/ WorkerTake
    \/ \E t \in Tasks, api \in PoolOutcomes : GatewayReturn(t, api)
    \/ \E t \in Tasks : TaskResume(t)
    \/ \E o \in Ops : Timeout(o)
SpecPool == InitPool /\ [][NextPool]_vars

\* ------------------------------------------------------------------------
\* The normalizer on its own: parse_json_response followed by
\* _safe_json_parse (lines 62-65 of _make_llm_call_async), and
\* _safe_json_parse applied to a value directly
\* ------------------------------------------------------------------------
\* up to MaxPad blank lines before and after a text
MaxPad == 1
RECURSIVE Blank(_)
Blank(k) == IF k = 0 THEN <<>> ELSE <<"\n">> \o Blank(k - 1)

\* one valid JSON object each
ObjectTexts ==
    { FeedbackText(<<"7">>), QuestionText, <<"{", "}">>,
      Obj1(Pair("meta", <<"{">> \o Pair("tags", <<"[", "1", ",", " ", "2", "]">>)
                        \o <<"}">>)),
      Obj1(Pair("feedback", <<Quote, "wrap it in ", Fence, "json", " blocks", Quote>>)),
      Obj1(Pair("feedback", <<Quote, "use ", "{", "name", "}", " here", Quote>>)) }
\* what a model puts before and after the object
Prefixes ==
    { <<>>, <<"Here you go:", "\n">>, <<Fence, "json", "\n">>, <<Fence, "\n">>,
      <<"Here you go:", "\n", Fence, "json", "\n">>,
      <<"Fill the ", "{", "slot", "}", " like this:", "\n">> }
Suffixes ==
    { <<>>, <<"\n", Fence>>, <<"\n", "Hope this helps.">>,
      <<"\n", Fence, "\n", "Hope this helps.">>,
      <<"\n", "Keys are in ", "{", "}", ".">> }
WrappedInputs ==
    { [stage |-> "input",
       input |-> StrV(Blank(a) \o pre \o obj \o post \o Blank(b)),
       wrapped |-> TRUE, object |-> json_loads(obj).val,
       out |-> Ret(None), prev |-> Ret(None)] :
          a \in 0..MaxPad, b \in 0..MaxPad,
          pre \in Prefixes, obj \in ObjectTexts, post \in Suffixes }
\* values of every type, and strings holding JSON that is no object
OtherValues ==
    { None, IntV(7), BoolV(TRUE), ListV(<<>>), DictV(<<>>),
      json_loads(FeedbackText(<<"7">>)).val,
      StrV(<<"[", "1", ",", " ", "2", "]">>), StrV(<<"7">>), StrV(<<"7", ".", "5">>),
      StrV(JStr("just text")), StrV(<<"null">>), StrV(<<"true">>),
      StrV(<<>>), StrV(<<"I cannot answer that.">>), StrV(<<"{", "not json", "}">>),
      StrV(<<"[", "{", "}", "]">>) }
OtherInputs ==
    { [stage |-> "input", input |-> v, wrapped |-> FALSE, object |-> None,
       out |-> Ret(None), prev |-> Ret(None)] : v \in OtherValues }

InitNormalize ==
    /\ op = [o \in {} |-> IdleOp]
    /\ task = [t \in {} |-> NoTask]
    /\ fut = [t \in {} |-> NoFut]
    /\ queue = <<>>
    /\ workers = {}
    /\ submitted = [t \in {} |-> 0]
    /\ norm \in WrappedInputs \cup OtherInputs

\* response_json = parse_json_response(response_text)
NormParse ==
    /\ norm.stage = "input"
    /\ norm' = [norm EXCEPT !.stage = "parsed",
                            !.out = Ret(parse_json_response(norm.input))]
    /\ UNCHANGED <<op, task, fut, queue, workers, submitted>>
\* safe_json = _safe_json_parse(response_json)
NormSafe ==
    /\ norm.stage = "parsed"
    /\ norm' = [norm EXCEPT !.stage = "normalized",
                            !.out = _safe_json_parse(norm.out.val)]
    /\ UNCHANGED <<op, task, fut, queue, workers, submitted>>
\* _safe_json_parse(data) on the input itself
SafeDirect ==
    /\ norm.stage = "input"
    /\ norm' = [norm EXCEPT !.stage = "direct", !.out = _safe_json_parse(norm.input)]
    /\ UNCHANGED <<op, task, fut, queue, workers, submitted>>
\* _safe_json_parse applied to what it returned
SafeAgain ==
    /\ norm.stage \in {"normalized", "direct"}
    /\ norm.out.ok
    /\ norm' = [norm EXCEPT !.stage = "again", !.prev = norm.out,
                            !.out = _safe_json_parse(norm.out.val)]
    /\ UNCHANGED <<op, task, fut, queue, workers, submitted>>

NextNormalize == NormParse \/ NormSafe \/ SafeDirect \/ SafeAgain
SpecNormalize == InitNormalize /\ [][NextNormalize]_vars

\* ------------------------------------------------------------------------
\* Properties
\* ------------------------------------------------------------------------
FB(o) == <<o, "fb">>
NQ(o) == <<o, "nq">>
Combined(o) == op[o].kind = "combined"
\* the sub-call got the result of its gateway call and ran to its end
Resumed(t) == Finished(t) /\ fut[t].st = "finished"
\* the normalized response the sub-call t worked on
Normalized(t) == _make_llm_call_async(fut[t].res)
TimedOutError(out) ==
    /\ ~out.ok
    /\ out.val = None
    /\ out.exc = [type |-> AnalysisError, msg |-> <<"LLM operations timed out">>]

\* C1: when both sub-calls of the combined operation succeed before the
\* deadline, the operation returns the tuple (value of the next-question
\* sub-call, result of the feedback sub-call), in whichever order the two
\* sub-calls finished.
C1_TupleOrder ==
    \A o \in Ops :
        (Combined(o) /\ task[FB(o)].st = "done" /\ task[NQ(o)].st = "done") =>
            /\ op[o].st = "returned"
            /\ op[o].out.ok
            /\ op[o].out.val.t = "tuple"
            /\ Len(op[o].out.val.items) = 2
            /\ op[o].out.val.items[1].v = task[NQ(o)].res.val
            /\ op[o].out.val.items[2].v = task[FB(o)].res.val
\* both succeeded, the next-question sub-call first
C1_Witness ==
    \E o \in Ops :
        /\ Combined(o) /\ op[o].st = "returned"
        /\ task[NQ(o)].rank = 1 /\ task[FB(o)].rank = 2
        /\ task[NQ(o)].res.val # task[FB(o)].res.val

\* C2: when the deadline passes before both sub-calls have completed, the
\* combined operation fails there and then with the AnalysisError "LLM
\* operations timed out" and no result, also when one sub-call had already
\* succeeded and the other is still in its gateway call.
C2_TimeoutFails ==
    \A o \in Ops :
        op[o].expired =>
            /\ op[o].st = "raised"
            /\ TimedOutError(op[o].out)
            /\ \E r \in Roles : ~Finished(<<o, r>>)
\* the feedback sub-call had succeeded, the next-question gateway call is
\* still running on its thread
C2_Witness ==
    \E o \in Ops :
        /\ op[o].expired /\ op[o].st = "raised"
        /\ task[FB(o)].st = "done"
        /\ task[NQ(o)].st = "cancelled"
        /\ fut[NQ(o)].st = "running"

\* C3: as soon as a sub-call of the combined operation has failed, the
\* operation has failed with an AnalysisError whose message is "Response
\* analysis failed: " followed by the message of a failed sub-call, whatever
\* the other sub-call is doing.
C3_FailsAtOnce ==
    \A o \in Ops :
        (Combined(o) /\ \E r \in Roles : task[<<o, r>>].st = "failed") =>
            /\ op[o].st = "raised"
            /\ ~op[o].expired
            /\ op[o].out.exc.type = AnalysisError
            /\ \E r \in Roles :
                   /\ task[<<o, r>>].st = "failed"
                   /\ op[o].out.exc.msg
                          = <<"Response analysis failed: ">> \o task[<<o, r>>].res.exc.msg
\* the feedback sub-call failed while the next-question gateway call runs
C3_Witness ==
    \E o \in Ops :
        /\ Combined(o) /\ op[o].st = "raised"
        /\ task[FB(o)].st = "failed"
        /\ task[NQ(o)].st = "awaiting" /\ fut[NQ(o)].st = "running"

\* C4: once the combined operation has raised because a sub-call failed, the
\* other sub-call takes no further step: it is not resumed with the result
\* of its gateway call.
C4_OtherSubCallStops ==
    [][\A o \in Ops :
           (Combined(o) /\ op[o].st = "raised" /\ ~op[o].expired) =>
               \A r \in Roles : task'[<<o, r>>] = task[<<o, r>>]]_vars

\* C5: for each of the three operations, a failure at any layer (prompt
\* rendering, transport, malformed output, missing field, invalid score,
\* timeout) reaches the caller as InterviewAnalysisError and nothing else,
\* and an operation that returned had no failure in any of its sub-calls.
C5_OnlyAnalysisError ==
    \A o \in Ops :
        /\ op[o].st = "raised" => (~op[o].out.ok /\ op[o].out.exc.type = AnalysisError)
        /\ (op[o].expired \/ \E r \in RolesOf(op[o].kind) : task[<<o, r>>].st = "failed")
               => op[o].st = "raised"
        /\ op[o].st = "returned" =>
               \A r \in RolesOf(op[o].kind) :
                   /\ task[<<o, r>>].st = "done"
                   /\ fut[<<o, r>>].st = "finished"
                   /\ fut[<<o, r>>].res.ok
                   /\ Normalized(<<o, r>>).ok
                   /\ IsDict(Normalized(<<o, r>>).val)
\* a transport fault, raised as RuntimeError by the gateway, has reached the
\* caller
C5_Witness ==
    \E o \in Ops, r \in Roles :
        /\ op[o].st = "raised"
        /\ r \in RolesOf(op[o].kind)
        /\ fut[<<o, r>>].st = "finished"
        /\ fut[<<o, r>>].res.exc.type = "RuntimeError"
        /\ task[<<o, r>>].st = "failed"

\* C6: the message of the error the caller receives contains the message of
\* the error that was raised first at the point of failure.
C6_CauseEmbedded ==
    \A o \in Ops :
        op[o].st = "raised" => Embeds(op[o].out.exc.msg, op[o].out.first)

\* C7: the combined operation returns only when both sub-calls succeeded
\* before the deadline: the first element comes from a normalized response
\* holding next_question, the second from one holding feedback and a score
\* that float() turns into a number in [0, 10]; an operation that raised
\* carries no outcome.
C7_OutcomeOnlyFromValid ==
    \A o \in Ops :
        Combined(o) =>
            /\ op[o].st = "returned" =>
                   /\ ~op[o].expired
                   /\ Resumed(NQ(o)) /\ Resumed(FB(o))
                   /\ LET n == Normalized(NQ(o))
                      IN  /\ n.ok /\ IsDict(n.val)
                          /\ HasKey(n.val, <<"next_question">>)
                          /\ op[o].out.val.items[1].v = Get(n.val, <<"next_question">>)
                   /\ LET n == Normalized(FB(o))
                      IN  /\ n.ok /\ IsDict(n.val)
                          /\ HasKey(n.val, <<"feedback">>) /\ HasKey(n.val, <<"score">>)
                          /\ LET f == float(Get(n.val, <<"score">>))
                             IN  /\ f.ok /\ IsFinite(f.val)
                                 /\ 0 <= f.val.n /\ f.val.n <= 10 * Pow10(f.val.e)
                          /\ op[o].out.val.items[2].v
                                 = DictV(<< Member(<<"feedback">>, Get(n.val, <<"feedback">>)),
                                            Member(<<"score">>, Get(n.val, <<"score">>)) >>)
            /\ op[o].st = "raised" => (~op[o].out.ok /\ op[o].out.val = None)
            /\ op[o].st \in {"idle", "waiting"} => op[o].out = Ret(None)
\* an outcome was returned
C7_Witness ==
    \E o \in Ops :
        /\ Combined(o) /\ op[o].st = "returned"
        /\ op[o].out.val.items[1].v = StrV(<<"Why queues?">>)
        /\ Get(op[o].out.val.items[2].v, <<"score">>) = IntV(10)

\* C8: on a normalized response holding feedback and score, the feedback
\* sub-call succeeds exactly when float() of the score is a number in
\* [0, 10] (0, 10, 7 and "7" pass; -1, 11 and "high" do not), and when it
\* fails the AnalysisError names the score as it was given.
C8_ScoreAcceptedIffInRange ==
    \A o \in Ops :
        LET t == FB(o)
            n == Normalized(t)
        IN  (Resumed(t) /\ n.ok /\ IsDict(n.val)
             /\ HasKey(n.val, <<"feedback">>) /\ HasKey(n.val, <<"score">>)) =>
                LET raw == Get(n.val, <<"score">>)
                    f == float(raw)
                    inside == /\ f.ok /\ IsFinite(f.val)
                              /\ 0 <= f.val.n /\ f.val.n <= 10 * Pow10(f.val.e)
                IN  /\ task[t].st = "done" <=> inside
                    /\ raw \in {IntV(0), IntV(10), IntV(7), StrV(<<"7">>)}
                           => task[t].st = "done"
                    /\ raw \in {IntV(-1), IntV(11), StrV(<<"high">>)}
                           => task[t].st = "failed"
                    /\ task[t].st = "failed" =>
                           /\ task[t].res.exc.type = AnalysisError
                           /\ Embeds(task[t].res.exc.msg, PyStr(raw))
\* the score 11, just outside, was rejected
C8_Witness ==
    \E o \in Ops :
        /\ Resumed(FB(o)) /\ task[FB(o)].st = "failed"
        /\ Normalized(FB(o)).ok
        /\ HasKey(Normalized(FB(o)).val, <<"score">>)
        /\ Get(Normalized(FB(o)).val, <<"score">>) = IntV(11)
        /\ Embeds(task[FB(o)].res.exc.msg, <<"1", "1">>)

\* C9: on a normalized response that lacks feedback or score, the feedback
\* sub-call fails with an AnalysisError whose message lists every missing
\* key; for {} it lists both.
C9_AllMissingListed ==
    \A o \in Ops :
        LET t == FB(o)
            n == Normalized(t)
        IN  (Resumed(t) /\ n.ok /\ IsDict(n.val)
             /\ \E k \in {"feedback", "score"} : ~HasKey(n.val, <<k>>)) =>
                /\ task[t].st = "failed"
                /\ task[t].res.exc.type = AnalysisError
                /\ \A k \in {"feedback", "score"} :
                       ~HasKey(n.val, <<k>>) =>
                           Embeds(task[t].res.exc.msg, <<"'", k, "'">>)
\* the empty object was answered
C9_Witness ==
    \E o \in Ops :
        /\ Resumed(FB(o)) /\ task[FB(o)].st = "failed"
        /\ Normalized(FB(o)).ok
        /\ Normalized(FB(o)).val = DictV(<<>>)
        /\ Embeds(task[FB(o)].res.exc.msg, <<"'", "feedback", "'">>)
        /\ Embeds(task[FB(o)].res.exc.msg, <<"'", "score", "'">>)

\* C10: when the feedback sub-call succeeds, the score and the feedback it
\* returns are the values of the normalized response, unchanged: an int
\* stays an int, a numeric string stays a string.
C10_ScoreAsGiven ==
    \A o \in Ops :
        LET t == FB(o)
            n == Normalized(t)
        IN  task[t].st = "done" =>
                /\ Resumed(t) /\ n.ok
                /\ task[t].res.ok
                /\ IsDict(task[t].res.val)
                /\ Len(task[t].res.val.items) = 2
                /\ Get(task[t].res.val, <<"score">>) = Get(n.val, <<"score">>)
                /\ Get(task[t].res.val, <<"feedback">>) = Get(n.val, <<"feedback">>)
\* the numeric string "7" came back as a string
C10_Witness ==
    \E o \in Ops :
        /\ task[FB(o)].st = "done"
        /\ Get(task[FB(o)].res.val, <<"score">>) = StrV(<<"7">>)
        /\ float(Get(task[FB(o)].res.val, <<"score">>)).val = FloatV(7, 0)

\* C11: on a normalized response without the key next_question (one that
\* carries question instead, say) the next-question sub-call fails with an
\* AnalysisError that says the key is missing and shows the response; on one
\* with the key it returns the value of next_question as it is.
C11_NextQuestionKey ==
    \A o \in Ops :
        LET t == NQ(o)
            n == Normalized(t)
        IN  (Resumed(t) /\ n.ok /\ IsDict(n.val)) =>
                IF HasKey(n.val, <<"next_question">>)
                THEN /\ task[t].st = "done"
                     /\ task[t].res.ok
                     /\ task[t].res.val = Get(n.val, <<"next_question">>)
                ELSE /\ task[t].st = "failed"
                     /\ task[t].res.exc.type = AnalysisError
                     /\ Embeds(task[t].res.exc.msg,
                               <<"Missing 'next_question' in LLM output: ">>
                               \o PyStr(n.val))
\* the model answered with the key question
C11_Witness ==
    \E o \in Ops :
        /\ Resumed(NQ(o)) /\ task[NQ(o)].st = "failed"
        /\ Normalized(NQ(o)).ok
        /\ HasKey(Normalized(NQ(o)).val, <<"question">>)
        /\ ~HasKey(Normalized(NQ(o)).val, <<"next_question">>)

\* C12: every value the next-question sub-call returns is a string.
C12_QuestionIsString ==
    \A o \in Ops : task[NQ(o)].st = "done" => IsStr(task[NQ(o)].res.val)

\* C13: for a text that is one valid JSON object, with or without prose and
\* code fences around it (prose with braces in it and strings with fence
\* markers in them included), parse_json_response followed by
\* _safe_json_parse gives that object; and _safe_json_parse gives back a
\* mapping it is handed.
C13_ObjectRecovered ==
    /\ (norm.stage = "normalized" /\ norm.wrapped) =>
           (norm.out.ok /\ norm.out.val = norm.object)
    /\ (norm.stage = "again" /\ IsDict(norm.prev.val)) => norm.out = norm.prev

\* C14: whatever it is handed, _safe_json_parse returns a mapping or fails
\* with the AnalysisError for malformed output; None always fails.
C14_MappingOrError ==
    (norm.stage = "direct") =>
        /\ norm.out.ok => IsDict(norm.out.val)
        /\ ~norm.out.ok => norm.out.exc.type = AnalysisError
        /\ norm.input = None => ~norm.out.ok

\* C15: whatever the operations are doing, at most max_workers (4) gateway
\* invocations are executing, the calls of operations that have already timed
\* out or failed included; a call handed to the executor that is not
\* executing (and was not cancelled) waits in the executor's queue, exactly
\* once.
C15_PoolCeiling ==
    /\ Cardinality(workers) <= max_workers
    /\ \A t \in Tasks :
          /\ (fut[t].st = "running") <=> (t \in workers)
          /\ (fut[t].st = "pending")
                <=> (Len(SelectSeq(queue, LAMBDA x : x = t)) = 1)
          /\ Len(SelectSeq(queue, LAMBDA x : x = t)) <= 1
\* all four threads are busy, one of them for an operation that has timed
\* out and one for an operation that has failed, while another call waits
C15_Witness ==
    /\ Cardinality(workers) = max_workers
    /\ queue # <<>>
    /\ \E t \in workers : op[t[1]].st = "raised" /\ op[t[1]].expired
    /\ \E t \in workers : op[t[1]].st = "raised" /\ ~op[t[1]].expired

\* C16: no operation retries: in every state, whatever its gateway calls
\* have answered, each sub-call has handed at most one gateway call to the
\* executor, and only the sub-calls of the operation's kind have handed any:
\* at most one for get_next_question or get_feedback_of_candidate_response,
\* at most two for the combined operation.
C16_NoRetry ==
    \A o \in Ops :
        /\ \A r \in Roles :
              /\ submitted[<<o, r>>] <= 1
              /\ r \notin RolesOf(op[o].kind) => submitted[<<o, r>>] = 0
        /\ op[o].kind \in {"question", "feedback"}
              => submitted[FB(o)] + submitted[NQ(o)] <= 1
        /\ submitted[FB(o)] + submitted[NQ(o)] <= 2
\* a combined operation is over, its feedback sub-call having failed on a
\* text the gateway did return and its next-question sub-call on a gateway
\* fault; each made its one call and nothing is queued or running
C16_Witness ==
    \E o \in Ops :
        /\ Combined(o) /\ op[o].st = "raised"
        /\ task[FB(o)].st = "failed" /\ fut[FB(o)].st = "finished" /\ fut[FB(o)].res.ok
        /\ task[NQ(o)].st = "failed" /\ fut[NQ(o)].st = "finished" /\ ~fut[NQ(o)].res.ok
        /\ submitted[FB(o)] = 1 /\ submitted[NQ(o)] = 1
        /\ queue = <<>> /\ workers = {}

\* C17: a combined operation that has been started (with a finite timeout)
\* eventually completes, returning its tuple or raising AnalysisError,
\* whether or not its gateway calls ever get a thread or ever return.
C17_CombinedCompletes ==
    \A o \in {1} :
        (Combined(o) /\ op[o].st = "waiting")
            ~> \/ op[o].st = "returned" /\ op[o].out.ok /\ op[o].out.val.t = "tuple"
               \/ op[o].st = "raised" /\ ~op[o].out.ok
                      /\ op[o].out.exc.type = AnalysisError
\* the operation is over although one of its gateway calls is still running
\* on its thread and the other never got a thread
C17_Witness ==
    \E o \in Ops :
        /\ Combined(o) /\ op[o].st = "raised" /\ op[o].expired
        /\ fut[FB(o)].st = "running" /\ FB(o) \in workers
        /\ fut[NQ(o)].st = "cancelled" /\ submitted[NQ(o)] = 1

\* C18: a combined operation that has raised "LLM operations timed out" is
\* one whose deadline passed while it was waiting; one that has raised
\* without its deadline having passed reports "Response analysis failed: "
\* followed by the message of a failed sub-call, also when that sub-call
\* failed on a gateway fault that is itself a TimeoutError.
C18_TimeoutOnlyOnExpiry ==
    \A o \in Ops :
        (Combined(o) /\ op[o].st = "raised") =>
            /\ (op[o].out.exc.msg = <<"LLM operations timed out">>) => op[o].expired
            /\ ~op[o].expired =>
                  \E r \in Roles :
                      /\ task[<<o, r>>].st = "failed"
                      /\ op[o].out.exc.type = AnalysisError
                      /\ op[o].out.exc.msg
                            = <<"Response analysis failed: ">> \o task[<<o, r>>].res.exc.msg
\* the gateway call of a sub-call raised TimeoutError and the operation
\* failed on it before its deadline
C18_Witness ==
    \E o \in Ops, r \in Roles :
        /\ Combined(o) /\ op[o].st = "raised" /\ ~op[o].expired
        /\ fut[<<o, r>>].res = get_response_from_llm(GatewayTimeout)
        /\ task[<<o, r>>].st = "failed" /\ task[<<o, r>>].rank = 1
        /\ Embeds(op[o].out.exc.msg, GatewayTimeout.exc.msg)

\* C19: when both sub-calls of a combined operation have failed (its
\* deadline not having passed), the operation has raised "Response analysis
\* failed: " followed by the message of the sub-call that failed first,
\* feedback or next-question; the failure that came second is not what is
\* reported, and the report is still the first one after the second failure.
C19_FirstFailureReported ==
    \A o \in Ops :
        (Combined(o) /\ ~op[o].expired
           /\ task[FB(o)].st = "failed" /\ task[NQ(o)].st = "failed") =>
            \E r \in Roles :
                /\ task[<<o, r>>].rank = 1
                /\ task[Sibling(<<o, r>>)].rank = 2
                /\ op[o].st = "raised"
                /\ op[o].out.exc.msg
                      = <<"Response analysis failed: ">> \o task[<<o, r>>].res.exc.msg
\* both failed, the next-question sub-call first and with another message
\* than the feedback sub-call
C19_Witness ==
    \E o \in Ops :
        /\ Combined(o) /\ op[o].st = "raised" /\ ~op[o].expired
        /\ task[NQ(o)].st = "failed" /\ task[NQ(o)].rank = 1
        /\ task[FB(o)].st = "failed" /\ task[FB(o)].rank = 2
        /\ fut[NQ(o)].st = "finished" /\ fut[FB(o)].st = "finished"
        /\ task[NQ(o)].res.exc.msg # task[FB(o)].res.exc.msg
        /\ op[o].out.exc.msg
              # <<"Response analysis failed: ">> \o task[FB(o)].res.exc.msg
====
